---- MODULE Spec2Model ----
(***************************************************************************)
(* CatalogTable (plugins/catalog CatalogTable.tsx): the render pass of the *)
(* catalog table component, its default column selection, its row          *)
(* projection, the legacy in-place sort and the default row actions.       *)
(*                                                                         *)
(* Strings that the code builds, lower-cases or compares are sequences of  *)
(* one-character strings.  An optional value (a prop or field that may be  *)
(* undefined) is None or Some(v).                                          *)
(***************************************************************************)
EXTENDS Integers, Sequences, FiniteSets, TLC

VARIABLES
    entities,   \* useEntityList().entities: the array object held by the context
    supplied,   \* the entities, in the order the external source last supplied them
    loading,    \* useEntityList().loading
    error,      \* useEntityList().error
    filters,    \* useEntityList().filters (kind, type)
    props,      \* CatalogTableProps of the mounted component
    starred,    \* the entity refs the favorites service holds as starred
    out         \* what the last render pass handed to the widgets

vars == <<entities, supplied, loading, error, filters, props, starred, out>>

----------------------------------------------------------------------------
(* Bounds *)

MaxLen == 3
MaxShort == 2
MaxRows == 22

----------------------------------------------------------------------------
(* Optional values and strings *)

None == [defined |-> FALSE]
Some(v) == [defined |-> TRUE, value |-> v]

sEmpty == <<>>
sDefault == <<"d", "e", "f", "a", "u", "l", "t">>
sDev == <<"d", "e", "v">>
sComponent == <<"C", "o", "m", "p", "o", "n", "e", "n", "t">>
sAPI == <<"A", "P", "I">>
sGroup == <<"g", "r", "o", "u", "p">>
sSystem == <<"s", "y", "s", "t", "e", "m">>

\* The collation order of the characters in use: punctuation before letters.
Collation == <<":", "/", "a", "b", "c", "d", "e", "f", "g", "h", "i", "j", "k",
               "l", "m", "n", "o", "p", "q", "r", "s", "t", "u", "v", "w", "x",
               "y", "z">>

Upper == <<"A", "B", "C", "D", "E", "F", "G", "H", "I", "J", "K", "L", "M",
           "N", "O", "P", "Q", "R", "S", "T", "U", "V", "W", "X", "Y", "Z">>

Chars == {Collation[i] : i \in 1..Len(Collation)} \cup {Upper[i] : i \in 1..Len(Upper)}

\* String.prototype.toLocaleLowerCase('en-US'), character by character.
LowerMap ==
    [c \in Chars |->
        IF \E i \in 1..Len(Upper) : Upper[i] = c
        THEN Collation[2 + (CHOOSE i \in 1..Len(Upper) : Upper[i] = c)]
        ELSE c]

LowerChar(c) == LowerMap[c]

toLocaleLowerCase(s) == [i \in 1..Len(s) |-> LowerChar(s[i])]

\* Primary collation weight of a character: its letter, case ignored.
PrimaryMap ==
    [c \in Chars |-> CHOOSE i \in 1..Len(Collation) : Collation[i] = LowerMap[c]]

Primary(c) == PrimaryMap[c]

\* Tertiary collation weight: lower case sorts before upper case.
Tertiary(c) == IF LowerChar(c) = c THEN 0 ELSE 1

\* Lexicographic comparison of two weight sequences: -1, 0 or 1.
RECURSIVE LexCompare(_, _)
LexCompare(a, b) ==
    IF Len(a) = 0 /\ Len(b) = 0 THEN 0
    ELSE IF Len(a) = 0 THEN -1
    ELSE IF Len(b) = 0 THEN 1
    ELSE IF Head(a) < Head(b) THEN -1
    ELSE IF Head(a) > Head(b) THEN 1
    ELSE LexCompare(Tail(a), Tail(b))

\* a.localeCompare(b): letters first, then case as the tie-break.
localeCompare(a, b) ==
    LET p == LexCompare([i \in 1..Len(a) |-> Primary(a[i])],
                        [i \in 1..Len(b) |-> Primary(b[i])])
    IN  IF p # 0 THEN p
        ELSE LexCompare([i \in 1..Len(a) |-> Tertiary(a[i])],
                        [i \in 1..Len(b) |-> Tertiary(b[i])])

----------------------------------------------------------------------------
(* Entities and the catalog-model helpers *)

Entity(kind, namespace, name, title, annotations, relations) ==
    [kind |-> kind,
     metadata |-> [namespace |-> namespace, name |-> name, title |-> title,
                   annotations |-> annotations],
     relations |-> relations]

\* A relation of an entity: its type and the compound ref of its target.
Relation(type, kind, namespace, name) ==
    [type |-> type,
     target |-> [kind |-> kind, namespace |-> namespace, name |-> name]]

\* The formatting shared by both argument shapes of humanizeEntityRef:
\* [kind:][namespace/]name, the kind left out when it is the default kind, the
\* namespace when it is "default" (an absent or empty namespace is "default").
HumanizeParts(kind, ns, name, defaultKind) ==
    LET namespace == IF ~ns.defined \/ ns.value = sEmpty THEN sDefault ELSE ns.value
        lkind == toLocaleLowerCase(kind)
        kindPart == IF toLocaleLowerCase(defaultKind) = lkind
                    THEN sEmpty ELSE lkind \o <<":">>
        nsPart == IF namespace = sDefault THEN sEmpty ELSE namespace \o <<"/">>
    IN  kindPart \o nsPart \o name

\* humanizeEntityRef(entity, { defaultKind })
humanizeEntityRef(entity, defaultKind) ==
    HumanizeParts(entity.kind, entity.metadata.namespace, entity.metadata.name,
                  defaultKind)

\* humanizeEntityRef(compoundRef, { defaultKind })
humanizeCompoundRef(ref, defaultKind) ==
    HumanizeParts(ref.kind, Some(ref.namespace), ref.name, defaultKind)

\* getEntityRelations(entity, type, { kind }): the targets of the entity's
\* relations of that type, optionally only those of one kind.
getEntityRelations(entity, type, kind) ==
    LET keep(r) == /\ r.type = type
                   /\ kind.defined =>
                        toLocaleLowerCase(r.target.kind) = toLocaleLowerCase(kind.value)
        targets == SelectSeq(entity.relations, keep)
    IN  [i \in 1..Len(targets) |-> targets[i].target]

\* Array.prototype.join(sep) over strings.
RECURSIVE join(_, _)
join(strs, sep) ==
    IF Len(strs) = 0 THEN sEmpty
    ELSE IF Len(strs) = 1 THEN strs[1]
    ELSE strs[1] \o sep \o join(Tail(strs), sep)

\* stringifyEntityRef(entity): kind:namespace/name, lower-cased.
stringifyEntityRef(entity) ==
    LET ns == entity.metadata.namespace
        namespace == IF ns.defined THEN ns.value ELSE sDefault
    IN  toLocaleLowerCase(entity.kind) \o <<":">>
            \o toLocaleLowerCase(namespace) \o <<"/">>
            \o toLocaleLowerCase(entity.metadata.name)

\* useStarredEntities().isStarredEntity(entity)
isStarredEntity(st, entity) == stringifyEntityRef(entity) \in st

\* useStarredEntities().toggleStarredEntity(entity)
toggleStarredEntity(st, entity) ==
    IF stringifyEntityRef(entity) \in st
    THEN st \ {stringifyEntityRef(entity)}
    ELSE st \cup {stringifyEntityRef(entity)}

----------------------------------------------------------------------------
(* CatalogTable.tsx *)

ANNOTATION_VIEW_URL == "backstage.io/view-url"
ANNOTATION_EDIT_URL == "backstage.io/edit-url"
RELATION_OWNED_BY == "ownedBy"
RELATION_PART_OF == "partOf"

\* toRef of refCompare: entity.metadata.title || humanizeEntityRef(entity, ...)
\* (an empty title is falsy and falls through to the ref).
toRef(entity) ==
    IF entity.metadata.title.defined /\ entity.metadata.title.value # sEmpty
    THEN entity.metadata.title.value
    ELSE humanizeEntityRef(entity, sComponent)

refCompare(a, b) == localeCompare(toRef(a), toRef(b))

\* InsertSorted with the comparison turned: x goes before the elements that
\* compare equal to it.
RECURSIVE InsertSortedUnstable(_, _)
InsertSortedUnstable(s, x) ==
    IF Len(s) = 0 THEN <<x>>
    ELSE IF refCompare(s[Len(s)], x) >= 0
         THEN Append(InsertSortedUnstable(SubSeq(s, 1, Len(s) - 1), x), s[Len(s)])
         ELSE Append(s, x)

\* One step of the stable sort: x goes behind every element that does not
\* compare greater than it.
RECURSIVE InsertSorted(_, _)
InsertSorted(s, x) ==
    IF Len(s) = 0 THEN <<x>>
    ELSE IF refCompare(s[Len(s)], x) > 0
         THEN Append(InsertSorted(SubSeq(s, 1, Len(s) - 1), x), s[Len(s)])
         ELSE Append(s, x)

\* entities.sort(refCompare): Array.prototype.sort is stable and sorts the
\* array it is called on; this is the array's content afterwards.
RECURSIVE sort(_)
sort(arr) ==
    IF Len(arr) = 0 THEN <<>>
    ELSE InsertSorted(sort(SubSeq(arr, 1, Len(arr) - 1)), arr[Len(arr)])

\* A column descriptor as a column factory returns it: which factory made it
\* and the options it was given.
Column(factory, hidden, defaultKind) ==
    [factory |-> factory, hidden |-> hidden, defaultKind |-> defaultKind]

\* createEntitySpecificColumns with the location case falling into the group
\* and template case: no targets column.
createEntitySpecificColumnsNoTargets(flt, ents) ==
    LET showTypeColumn == ~flt.type.defined
        baseColumns == << Column("createSystemColumn", FALSE, None),
                          Column("createOwnerColumn", FALSE, None),
                          Column("createSpecTypeColumn", ~showTypeColumn, None),
                          Column("createSpecLifecycleColumn", FALSE, None) >>
        kind == IF flt.kind.defined THEN flt.kind.value ELSE "undefined"
    IN  CASE flt.kind.defined /\ kind = "user" -> <<>>
          [] flt.kind.defined /\ kind \in {"domain", "system"} ->
                << Column("createOwnerColumn", FALSE, None) >>
          [] flt.kind.defined /\ kind \in {"group", "template", "location"} ->
                << Column("createSpecTypeColumn", ~showTypeColumn, None) >>
          [] OTHER ->
                IF \A i \in 1..Len(ents) :
                      ents[i].metadata.namespace = Some(sDefault)
                THEN baseColumns
                ELSE Append(baseColumns, Column("createNamespaceColumn", FALSE, None))

createEntitySpecificColumns(flt, ents) ==
    LET showTypeColumn == ~flt.type.defined
        baseColumns == << Column("createSystemColumn", FALSE, None),
                          Column("createOwnerColumn", FALSE, None),
                          Column("createSpecTypeColumn", ~showTypeColumn, None),
                          Column("createSpecLifecycleColumn", FALSE, None) >>
        kind == IF flt.kind.defined THEN flt.kind.value ELSE "undefined"
    IN  CASE flt.kind.defined /\ kind = "user" -> <<>>
          [] flt.kind.defined /\ kind \in {"domain", "system"} ->
                << Column("createOwnerColumn", FALSE, None) >>
          [] flt.kind.defined /\ kind \in {"group", "template"} ->
                << Column("createSpecTypeColumn", ~showTypeColumn, None) >>
          [] flt.kind.defined /\ kind = "location" ->
                << Column("createSpecTypeColumn", ~showTypeColumn, None),
                   Column("createSpecTargetsColumn", FALSE, None) >>
          [] OTHER ->
                IF \A i \in 1..Len(ents) :
                      ents[i].metadata.namespace = Some(sDefault)
                THEN baseColumns
                ELSE Append(baseColumns, Column("createNamespaceColumn", FALSE, None))

defaultColumnsFunc(flt, ents) ==
    << Column("createTitleColumn", TRUE, None),
       Column("createNameColumn", FALSE, flt.kind) >>
    \o createEntitySpecificColumns(flt, ents)
    \o << Column("createMetadataDescriptionColumn", FALSE, None),
          Column("createTagsColumn", FALSE, None) >>

\* toEntityRow with the title preferred for the name, as refCompare does.
toEntityRowTitleFirst(entity) ==
    [entity |-> entity,
     resolved |->
       [name |-> toRef(entity),
        entityRef |-> stringifyEntityRef(entity),
        ownedByRelationsTitle |-> sEmpty,
        ownedByRelations |-> <<>>,
        partOfSystemRelationTitle |-> sEmpty,
        partOfSystemRelations |-> <<>>]]

toEntityRow(entity) ==
    LET partOfSystemRelations ==
            getEntityRelations(entity, RELATION_PART_OF, Some(sSystem))
        ownedByRelations == getEntityRelations(entity, RELATION_OWNED_BY, None)
    IN  [entity |-> entity,
         resolved |->
           [name |-> humanizeEntityRef(entity, sComponent),
            entityRef |-> stringifyEntityRef(entity),
            ownedByRelationsTitle |->
                join([i \in 1..Len(ownedByRelations) |->
                        humanizeCompoundRef(ownedByRelations[i], sGroup)],
                     <<",", " ">>),
            ownedByRelations |-> ownedByRelations,
            partOfSystemRelationTitle |->
                join([i \in 1..Len(partOfSystemRelations) |->
                        humanizeCompoundRef(partOfSystemRelations[i], sSystem)],
                     <<",", " ">>),
            partOfSystemRelations |-> partOfSystemRelations]]

\* The three default row actions, in the order of the array.
defaultActions == <<"view", "edit", "favorite">>

\* RowAction with the favorite action's two titles and icons exchanged.
RowActionSwapped(action, entity, st) ==
    IF action = "favorite"
    THEN [tooltip |-> IF isStarredEntity(st, entity)
                      THEN "Add to favorites" ELSE "Remove from favorites",
          icon |-> IF isStarredEntity(st, entity) THEN "StarBorder" ELSE "YellowStar",
          disabled |-> FALSE]
    ELSE [tooltip |-> action, icon |-> action, disabled |-> FALSE]

\* What an action of the table yields for one row: the default actions as the
\* component defines them, a caller's action as an opaque descriptor.
RowAction(action, entity, st) ==
    CASE action = "view" ->
            [tooltip |-> "View", icon |-> "OpenInNew",
             disabled |-> ANNOTATION_VIEW_URL \notin entity.metadata.annotations]
      [] action = "edit" ->
            [tooltip |-> "Edit", icon |-> "Edit",
             disabled |-> ANNOTATION_EDIT_URL \notin entity.metadata.annotations]
      [] action = "favorite" ->
            [tooltip |-> IF isStarredEntity(st, entity)
                         THEN "Remove from favorites" ELSE "Add to favorites",
             icon |-> IF isStarredEntity(st, entity) THEN "YellowStar" ELSE "StarBorder",
             disabled |-> FALSE]
      [] OTHER -> [tooltip |-> action, icon |-> action, disabled |-> FALSE]

\* Object spread { ...a, ...b }: the keys of b win.
Spread(a, b) ==
    [k \in (DOMAIN a) \cup (DOMAIN b) |-> IF k \in DOMAIN b THEN b[k] ELSE a[k]]

PagingThreshold == 20
PageSize == 20

\* The rows LegacyCatalogTable hands to the table.
LegacyRows(ents) ==
    LET sorted == sort(ents)
    IN  [i \in 1..Len(sorted) |-> toEntityRow(sorted[i])]

\* LegacyOptions with the pager shown from 20 rows on.
LegacyOptionsFrom20(rows, ld, options) ==
    Spread([paging |-> Len(rows) >= PagingThreshold,
            pageSize |-> PageSize,
            actionsColumnIndex |-> -1,
            loadingType |-> "linear",
            showEmptyDataSourceMessage |-> ~ld,
            padding |-> "dense",
            pageSizeOptions |-> <<20, 50, 100>>],
           IF options.defined THEN options.value ELSE <<>>)

\* The options LegacyCatalogTable hands to the table.
LegacyOptions(rows, ld, options) ==
    LET showPagination == Len(rows) > PagingThreshold
    IN  Spread([paging |-> showPagination,
                pageSize |-> PageSize,
                actionsColumnIndex |-> -1,
                loadingType |-> "linear",
                showEmptyDataSourceMessage |-> ~ld,
                padding |-> "dense",
                pageSizeOptions |-> <<20, 50, 100>>],
               IF options.defined THEN options.value ELSE <<>>)

LegacyCatalogTable(actions, columns, ents, ld, options, st) ==
    LET rows == LegacyRows(ents)
        acts == IF actions.defined THEN actions.value ELSE <<>>
    IN  [view |-> "legacy",
         text |-> sEmpty,
         columns |-> columns,
         data |-> rows,
         actions |-> actions,
         rowActions |-> [i \in 1..Len(rows) |->
                           [a \in 1..Len(acts) |->
                              RowAction(acts[a], rows[i].entity, st)]],
         isLoading |-> ld,
         options |-> LegacyOptions(rows, ld, options)]

\* Error.prototype.toString(): the name and the message, either alone when the
\* other is empty.
ErrorToString(err) ==
    IF err.name = sEmpty THEN err.message
    ELSE IF err.message = sEmpty THEN err.name
    ELSE err.name \o <<":", " ">> \o err.message

\* The tableColumns memo: a columns function is called with the context, a
\* columns array is taken as it is.
TableColumns(prp, flt, ents) ==
    IF prp.columns.defined THEN prp.columns.value ELSE defaultColumnsFunc(flt, ents)

\* CatalogTable with the pagination flag looked at before the error.
CatalogTableFlagFirst(prp, ents, flt, err, ld, st) ==
    IF prp.enablePagination
    THEN [view |-> "paginated",
          text |-> sEmpty,
          columns |-> TableColumns(prp, flt, ents),
          data |-> [i \in 1..Len(ents) |-> toEntityRow(ents[i])],
          actions |-> None, rowActions |-> <<>>,
          isLoading |-> FALSE, options |-> <<>>]
    ELSE IF err.defined
    THEN [view |-> "error",
          text |-> ErrorToString(err.value),
          columns |-> <<>>, data |-> <<>>, actions |-> None, rowActions |-> <<>>,
          isLoading |-> FALSE, options |-> <<>>]
    ELSE LegacyCatalogTable(
            IF prp.actions.defined THEN prp.actions ELSE Some(defaultActions),
            TableColumns(prp, flt, ents), ents, ld, prp.tableOptions, st)

\* What one render of CatalogTable puts on the screen.
CatalogTable(prp, ents, flt, err, ld, st) ==
    IF err.defined
    THEN [view |-> "error",
          text |-> ErrorToString(err.value),
          columns |-> <<>>, data |-> <<>>, actions |-> None, rowActions |-> <<>>,
          isLoading |-> FALSE, options |-> <<>>]
    ELSE IF prp.enablePagination
    THEN [view |-> "paginated",
          text |-> sEmpty,
          columns |-> TableColumns(prp, flt, ents),
          data |-> [i \in 1..Len(ents) |-> toEntityRow(ents[i])],
          actions |-> None, rowActions |-> <<>>,
          isLoading |-> FALSE, options |-> <<>>]
    ELSE LegacyCatalogTable(
            IF prp.actions.defined THEN prp.actions ELSE Some(defaultActions),
            TableColumns(prp, flt, ents), ents, ld, prp.tableOptions, st)

\* The content of the context's entities array after that render: the legacy
\* table sorts the array it was given, which is the context's.
EntitiesAfterRender(prp, ents, err) ==
    IF ~err.defined /\ ~prp.enablePagination THEN sort(ents) ELSE ents

----------------------------------------------------------------------------
(* What the collaborators can supply *)

E1 == Entity(sComponent, Some(sDefault), <<"b">>, Some(<<"A">>), {ANNOTATION_VIEW_URL},
             << Relation(RELATION_OWNED_BY, sGroup, sDefault, <<"t">>),
                Relation(RELATION_PART_OF, sSystem, sDefault, <<"s">>),
                Relation(RELATION_OWNED_BY, <<"U", "s", "e", "r">>, sDev, <<"u">>) >>)
E2 == Entity(sComponent, Some(sDefault), <<"c">>, Some(<<"a">>), {ANNOTATION_EDIT_URL}, <<>>)
E3 == Entity(sComponent, None, <<"a">>, None, {}, <<>>)
E4 == Entity(sAPI, Some(sDev), <<"B">>, Some(sEmpty), {}, <<>>)

Universe == {E1, E2, E3, E4}

Range(s) == {s[i] : i \in 1..Len(s)}

\* The entity lists of at most n entities, no entity twice: the catalog holds
\* one entity per entity ref.
RECURSIVE ListsUpTo(_, _)
ListsUpTo(U, n) ==
    IF n = 0 THEN {<<>>}
    ELSE LET shorter == ListsUpTo(U, n - 1)
         IN  shorter \cup {Append(l, e) : l \in shorter, e \in U}

EntityLists == {l \in ListsUpTo(Universe, MaxLen) : Cardinality(Range(l)) = Len(l)}
ShortLists == {l \in ListsUpTo(Universe, MaxShort) : Cardinality(Range(l)) = Len(l)}

\* The n-th entity of a long list: a component named by n letters a.
LongEntity(n) == Entity(sComponent, Some(sDefault), [i \in 1..n |-> "a"], None, {}, <<>>)

\* Lists of up to MaxRows entities, the lengths around the paging threshold
\* among them, as the source may order them: by name ascending or descending.
LongLists ==
    UNION {{[i \in 1..n |-> LongEntity(i)], [i \in 1..n |-> LongEntity(n + 1 - i)]}
           : n \in {0, 1} \cup ((PagingThreshold - 1)..MaxRows)}

Errors == {[name |-> <<"E">>, message |-> <<"x">>],
           [name |-> <<"E">>, message |-> sEmpty]}

KindValues == {"user", "domain", "system", "group", "template", "location",
               "component", "api"}

AllFilters == [kind : {None} \cup {Some(k) : k \in KindValues},
               type : {None, Some("service")}]

NoFilters == [kind |-> None, type |-> None]

Props(columns, actions, tableOptions, enablePagination) ==
    [columns |-> columns, actions |-> actions, tableOptions |-> tableOptions,
     enablePagination |-> enablePagination]

CallerActions == << "custom" >>
CallerColumns == << Column("custom", FALSE, None) >>

\* The props in use under each specification.
ModeProps == {Props(None, a, None, p) : a \in {None, Some(CallerActions)}, p \in BOOLEAN}
ColumnProps == {Props(c, None, None, p) : c \in {None, Some(CallerColumns)}, p \in BOOLEAN}
PagingProps ==
    {Props(None, None, o, FALSE) :
        o \in {None, Some([paging |-> FALSE]), Some([paging |-> TRUE]),
               Some([pageSize |-> 50]), Some([pageSizeOptions |-> <<10>>]),
               Some([search |-> FALSE])}}

----------------------------------------------------------------------------
(* The state machine: every event is followed by the render pass it causes *)

\* One render pass over the given context, props and starred set.
RenderPass(prp, ents, flt, err, ld, st) ==
    /\ out' = CatalogTable(prp, ents, flt, err, ld, st)
    /\ entities' = EntitiesAfterRender(prp, ents, err)

\* The mount: the context still empty and loading.
InitWith(propsSet) ==
    /\ props \in propsSet
    /\ supplied = <<>>
    /\ loading = TRUE
    /\ error = None
    /\ filters = NoFilters
    /\ starred = {}
    /\ out = CatalogTable(props, <<>>, NoFilters, None, TRUE, {})
    /\ entities = EntitiesAfterRender(props, <<>>, None)

\* The entity-list source delivers a (new) array of entities.
SourceSupplies(list, ld) ==
    /\ supplied' = list
    /\ loading' = ld
    /\ error' = None
    /\ UNCHANGED <<filters, props, starred>>
    /\ RenderPass(props, list, filters, None, ld, starred)

\* The entity-list source reports an error; the array it holds stays.
SourceFails(err) ==
    /\ error' = Some(err)
    /\ loading' = FALSE
    /\ UNCHANGED <<supplied, filters, props, starred>>
    /\ RenderPass(props, entities, filters, Some(err), FALSE, starred)

\* The user changes the kind or type filter.
FiltersChange(flt) ==
    /\ flt # filters
    /\ filters' = flt
    /\ UNCHANGED <<supplied, loading, error, props, starred>>
    /\ RenderPass(props, entities, flt, error, loading, starred)

\* The parent renders the component with other props.
PropsChange(prp) ==
    /\ prp # props
    /\ props' = prp
    /\ UNCHANGED <<supplied, loading, error, filters, starred>>
    /\ RenderPass(prp, entities, filters, error, loading, starred)

\* The user activates action a of row i; the favorite action's onClick calls
\* toggleStarredEntity(entity), and the changed starred set renders again.
ClickFavorite(i, a) ==
    /\ out.actions.defined
    /\ i \in 1..Len(out.data)
    /\ a \in 1..Len(out.actions.value)
    /\ out.actions.value[a] = "favorite"
    /\ starred' = toggleStarredEntity(starred, out.data[i].entity)
    /\ UNCHANGED <<supplied, loading, error, filters, props>>
    /\ RenderPass(props, entities, filters, error, loading, starred')

\* Render modes, the in-place sort and the row projection.
Init == InitWith(ModeProps)
Next ==
    \/ \E list \in EntityLists, ld \in BOOLEAN : SourceSupplies(list, ld)
    \/ \E err \in Errors : SourceFails(err)
    \/ \E prp \in ModeProps : PropsChange(prp)
Spec == Init /\ [][Next]_vars

\* Column selection over every kind and type filter.
InitColumns == InitWith(ColumnProps)
NextColumns ==
    \/ \E list \in ShortLists : SourceSupplies(list, FALSE)
    \/ \E flt \in AllFilters : FiltersChange(flt)
    \/ \E prp \in ColumnProps : PropsChange(prp)
SpecColumns == InitColumns /\ [][NextColumns]_vars

\* Long lists and caller-supplied table options.
InitPaging == InitWith(PagingProps)
NextPaging ==
    \/ \E list \in LongLists, ld \in BOOLEAN : SourceSupplies(list, ld)
    \/ \E prp \in PagingProps : PropsChange(prp)
SpecPaging == InitPaging /\ [][NextPaging]_vars

\* The favorite action and the favorites service.
InitStarred == InitWith(ModeProps)
NextStarred ==
    \/ \E list \in ShortLists : SourceSupplies(list, FALSE)
    \/ \E prp \in ModeProps : PropsChange(prp)
    \/ \E i \in 1..MaxShort, a \in 1..Len(defaultActions) : ClickFavorite(i, a)
SpecStarred == InitStarred /\ [][NextStarred]_vars

----------------------------------------------------------------------------
(* Claims *)

Rows == 1..Len(out.data)
Projection(ents) == [i \in 1..Len(ents) |-> toEntityRow(ents[i])]
HasColumn(factory) == \E i \in 1..Len(out.columns) : out.columns[i].factory = factory

\* C1: every render has exactly one of three outcomes: with an error, only the
\* error panel with error.toString() and no table, whatever the flag, the
\* entities and the loading state; without one, the paginated table when
\* enablePagination is set and the legacy table otherwise.
RenderOutcome ==
    /\ out.view \in {"error", "paginated", "legacy"}
    /\ error.defined =>
          /\ out.view = "error"
          /\ out.text = ErrorToString(error.value)
          /\ out.columns = <<>> /\ out.data = <<>> /\ ~out.actions.defined
    /\ (~error.defined /\ props.enablePagination) => out.view = "paginated"
    /\ (~error.defined /\ ~props.enablePagination) => out.view = "legacy"

RenderOutcomeWitness ==
    /\ error = Some([name |-> <<"E">>, message |-> <<"x">>])
    /\ props.enablePagination
    /\ Len(entities) = 2
    /\ out.view = "error"
    /\ out.text = <<"E", ":", " ", "x">>

\* C2: the context's entities array is only read: it always holds the entities
\* in the order the source supplied them.
EntitiesOnlyRead == entities = supplied

\* C3: in paginated mode the rows are the projection of the entities in the
\* order the source supplied them, with the selected columns, whatever was
\* rendered before.
PaginatedRowsInSourceOrder ==
    out.view = "paginated" =>
        /\ out.data = Projection(supplied)
        /\ out.columns = TableColumns(props, filters, supplied)

\* C4: in both modes the table carries the caller's actions when the caller
\* passes some, and the default actions View, Edit, Toggle favorite otherwise.
ActionsAttached ==
    out.view \in {"paginated", "legacy"} =>
        out.actions = IF props.actions.defined THEN props.actions
                      ELSE Some(<<"view", "edit", "favorite">>)

\* C5: the default column selection is the hidden title column, the name
\* column with the kind filter's value as default kind, the kind-specific
\* columns (none for user; owner for domain and system; type for group and
\* template; type, targets for location; system, owner, type, lifecycle and
\* possibly namespace otherwise), description, tags; a type column is hidden
\* exactly when a type filter is active.
KindColumns(kind, typeHidden) ==
    LET owner == Column("createOwnerColumn", FALSE, None)
        type == Column("createSpecTypeColumn", typeHidden, None)
        base == << Column("createSystemColumn", FALSE, None), owner, type,
                   Column("createSpecLifecycleColumn", FALSE, None) >>
    IN  IF kind = Some("user") THEN {<<>>}
        ELSE IF kind \in {Some("domain"), Some("system")} THEN {<<owner>>}
        ELSE IF kind \in {Some("group"), Some("template")} THEN {<<type>>}
        ELSE IF kind = Some("location")
             THEN {<<type, Column("createSpecTargetsColumn", FALSE, None)>>}
        ELSE {base, Append(base, Column("createNamespaceColumn", FALSE, None))}

ColumnSelection ==
    (out.view # "error" /\ ~props.columns.defined) =>
        \E specific \in KindColumns(filters.kind, filters.type.defined) :
            out.columns =
                << Column("createTitleColumn", TRUE, None),
                   Column("createNameColumn", FALSE, filters.kind) >>
                \o specific
                \o << Column("createMetadataDescriptionColumn", FALSE, None),
                      Column("createTagsColumn", FALSE, None) >>

ColumnSelectionWitness ==
    /\ filters = [kind |-> Some("location"), type |-> Some("service")]
    /\ ~props.columns.defined
    /\ Len(entities) = 2
    /\ Len(out.columns) = 6
    /\ out.columns[3] = Column("createSpecTypeColumn", TRUE, None)
    /\ out.columns[4].factory = "createSpecTargetsColumn"

\* C6: for a kind filter that is unset or none of user, domain, system, group,
\* template, location, the namespace column is there exactly when some entity
\* of the list has a namespace other than the default one, an entity without
\* an explicit namespace counting as in the default one; for the six kinds it
\* is never there.
InDefaultNamespace(entity) ==
    ~entity.metadata.namespace.defined \/ entity.metadata.namespace.value = sDefault

NamespaceColumnIff ==
    (out.view # "error" /\ ~props.columns.defined) =>
        IF filters.kind \in {Some(k) : k \in {"user", "domain", "system", "group",
                                              "template", "location"}}
        THEN ~HasColumn("createNamespaceColumn")
        ELSE HasColumn("createNamespaceColumn")
                <=> \E i \in 1..Len(entities) : ~InDefaultNamespace(entities[i])

\* C7 as stated: the row's display name is the entity's title when it has one
\* and the formatted ref otherwise, which is the legacy sort key of the row.
DisplayNameIsSortKey ==
    \A i \in Rows : out.data[i].resolved.name = toRef(out.data[i].entity)

\* C7 amended: the row's display name is the formatted ref with default kind
\* Component whether or not the entity has a title; it is the legacy sort key
\* of the row when the entity has no (non-empty) title, and the sort key of an
\* entity with a title is the title.
HasTitle(entity) ==
    entity.metadata.title.defined /\ entity.metadata.title.value # sEmpty

DisplayNameIsRef ==
    \A i \in Rows :
        LET e == out.data[i].entity
            ref == HumanizeParts(e.kind, e.metadata.namespace, e.metadata.name,
                                 sComponent)
        IN  /\ out.data[i].resolved.name = ref
            /\ ~HasTitle(e) => toRef(e) = out.data[i].resolved.name
            /\ HasTitle(e) => toRef(e) = e.metadata.title.value

DisplayNameWitness ==
    \E i \in Rows :
        /\ out.data[i].entity = E2
        /\ out.data[i].resolved.name = <<"c">>
        /\ toRef(E2) = <<"a">>

\* C8: in legacy mode the rows are the projections of the supplied entities,
\* each once, ascending by display name (title, else the ref with default kind
\* Component); entities with equal display names keep their supplied order.
IndexIn(seq, x) == CHOOSE i \in 1..Len(seq) : seq[i] = x

LegacySorted ==
    out.view = "legacy" =>
        /\ Len(out.data) = Len(supplied)
        /\ \A k \in 1..Len(supplied) :
              Cardinality({i \in Rows : out.data[i] = toEntityRow(supplied[k])})
                 = Cardinality({j \in 1..Len(supplied) : supplied[j] = supplied[k]})
        /\ \A i, j \in Rows :
              i < j =>
                LET c == localeCompare(toRef(out.data[i].entity),
                                       toRef(out.data[j].entity))
                IN  /\ c <= 0
                    /\ c = 0 => IndexIn(supplied, out.data[i].entity)
                                  < IndexIn(supplied, out.data[j].entity)

LegacySortedWitness ==
    /\ out.view = "legacy"
    /\ supplied = <<E1, E2, E3>>
    /\ out.data = Projection(<<E2, E3, E1>>)

\* C9 as stated: in legacy mode, whatever tableOptions the caller passes,
\* paging is on exactly when there are more than 20 rows, and then the page
\* size is 20 with the sizes 20, 50, 100 to choose from.
PagingIffOver20 ==
    out.view = "legacy" =>
        /\ out.options.paging = (Len(out.data) > 20)
        /\ out.options.paging =>
              /\ out.options.pageSize = 20
              /\ out.options.pageSizeOptions = <<20, 50, 100>>

\* C9 amended: that holds of each of the three options the caller's
\* tableOptions does not set; an option tableOptions sets has the caller's
\* value.
PagingUnlessOverridden ==
    out.view = "legacy" =>
        LET given == IF props.tableOptions.defined THEN props.tableOptions.value
                     ELSE <<>>
            Is(key, default) ==
                out.options[key] = IF key \in DOMAIN given THEN given[key] ELSE default
        IN  /\ Is("paging", Len(out.data) > 20)
            /\ Is("pageSize", 20)
            /\ Is("pageSizeOptions", <<20, 50, 100>>)

PagingWitness ==
    /\ out.view = "legacy"
    /\ ~props.tableOptions.defined
    /\ Len(out.data) = 21
    /\ entities # supplied
    /\ out.options.paging
    /\ out.options.pageSize = 20

\* C10: the starred state is not kept in a row: the favorite action of each
\* row shows "Remove from favorites" and the filled star exactly when the
\* favorites service holds the row's entity as starred, "Add to favorites" and
\* the empty star otherwise; a toggle changes the service's state for the
\* entity of one row only and leaves what every other row shows as it was.
FavoriteShown ==
    out.actions = Some(<<"view", "edit", "favorite">>) =>
        \A i \in Rows :
            /\ DOMAIN out.data[i] = {"entity", "resolved"}
            /\ IF out.data[i].resolved.entityRef \in starred
               THEN /\ out.rowActions[i][3].tooltip = "Remove from favorites"
                    /\ out.rowActions[i][3].icon = "YellowStar"
               ELSE /\ out.rowActions[i][3].tooltip = "Add to favorites"
                    /\ out.rowActions[i][3].icon = "StarBorder"

ToggleOneRow ==
    starred' # starred =>
        \E i \in Rows :
            LET ref == out.data[i].resolved.entityRef
            IN  /\ starred' = IF ref \in starred THEN starred \ {ref}
                              ELSE starred \cup {ref}
                /\ Len(out'.data) = Len(out.data)
                /\ \A j \in Rows : j # i => out'.rowActions[j] = out.rowActions[j]

FavoriteNeverCached == [](FavoriteShown) /\ [][ToggleOneRow]_vars

FavoriteWitness ==
    /\ out.actions = Some(<<"view", "edit", "favorite">>)
    /\ Len(out.data) = 2
    /\ Cardinality(starred) = 1
    /\ out.rowActions[1][3].tooltip = "Remove from favorites"
    /\ out.rowActions[2][3].tooltip = "Add to favorites"

====
